---- MODULE Spec2Model ----
(***************************************************************************)
(* Model of the GRR UI flow model utilities (lib/models/flow.ts) and of    *)
(* the statistics report directive controller (ReportController).          *)
(*                                                                         *)
(* JavaScript values are tagged records, so that undefined, null, the      *)
(* empty string and 0 stay distinct values and === is plain equality.      *)
(***************************************************************************)
EXTENDS Integers, Sequences, FiniteSets, TLC

Undefined == [kind |-> "undefined"]
Null == [kind |-> "null"]
Str(s) == [kind |-> "string", val |-> s]
Num(n) == [kind |-> "number", val |-> n]

\* JavaScript truthiness of a value, as tested by `if (value)`.
Truthy(v) ==
    CASE v.kind = "string" -> v.val # ""
      [] v.kind = "number" -> v.val # 0
      [] OTHER -> FALSE

----------------------------------------------------------------------------
(* lib/models/flow.ts *)

\* Longest resultSets list handed to the functions as an input.
MaxResultSets == 2

Flows == {"F1", "F2"}
WithTypes == {Undefined, Str("StatEntry")}
WithTags == {Undefined, Str(""), Str("tag")}

FlowResultSetState == [IN_PROGRESS |-> 0, FETCHED |-> 1]

\* The parts of a result set that are not its filter key: two windows that
\* differ in flowId, offset, count, state and items.
Windows ==
    { [flowId |-> "F1", offset |-> 0, count |-> 100,
       state |-> FlowResultSetState.IN_PROGRESS, items |-> <<>>],
      [flowId |-> "F2", offset |-> 100, count |-> 50,
       state |-> FlowResultSetState.FETCHED, items |-> <<"r1", "r2">>] }

FlowResultSet ==
    { [sourceQuery |-> [flowId |-> w.flowId, withType |-> ty, withTag |-> tg,
                        offset |-> w.offset, count |-> w.count],
       state |-> w.state, items |-> w.items] :
         w \in Windows, ty \in WithTypes, tg \in WithTags }

RECURSIVE SeqsUpTo(_, _)
SeqsUpTo(S, n) ==
    IF n = 0 THEN {<<>>}
    ELSE LET shorter == SeqsUpTo(S, n - 1)
         IN  shorter \cup {Append(s, x) : s \in {t \in shorter : Len(t) = n - 1}, x \in S}

FlowListEntry ==
    { [flow |-> f, resultSets |-> s] :
         f \in Flows, s \in SeqsUpTo(FlowResultSet, MaxResultSets) }

\* The loop test of updateFlowListEntryResultSet, SameKey, after two slips of
\* it: one that forgets withType, one that compares the whole query.
SameKeyTagOnly(rs, resultSet) ==
    rs.sourceQuery.withTag = resultSet.sourceQuery.withTag

SameKeyWholeQuery(rs, resultSet) == rs.sourceQuery = resultSet.sourceQuery

SameKey(rs, resultSet) ==
    /\ rs.sourceQuery.withTag = resultSet.sourceQuery.withTag
    /\ rs.sourceQuery.withType = resultSet.sourceQuery.withType

\* The for loop: newResultSets and pushed after the first n elements.
RECURSIVE UpdateLoop(_, _, _)
UpdateLoop(resultSets, resultSet, n) ==
    IF n = 0 THEN [newResultSets |-> <<>>, pushed |-> FALSE]
    ELSE LET before == UpdateLoop(resultSets, resultSet, n - 1)
             rs == resultSets[n]
         IN  IF SameKey(rs, resultSet)
             THEN [newResultSets |-> Append(before.newResultSets, resultSet),
                   pushed |-> TRUE]
             ELSE [newResultSets |-> Append(before.newResultSets, rs),
                   pushed |-> before.pushed]

\* updateFlowListEntryResultSet, after two slips of it: one without the
\* loop's replacement, one that never sets `pushed`.
updateAlwaysAppend(entry, resultSet) ==
    [entry EXCEPT !.resultSets = Append(@, resultSet)]

updateNeverPushed(entry, resultSet) ==
    LET loop == UpdateLoop(entry.resultSets, resultSet, Len(entry.resultSets))
    IN  [entry EXCEPT !.resultSets = Append(loop.newResultSets, resultSet)]

updateFlowListEntryResultSet(entry, resultSet) ==
    LET loop == UpdateLoop(entry.resultSets, resultSet, Len(entry.resultSets))
    IN  [entry EXCEPT !.resultSets =
            IF loop.pushed THEN loop.newResultSets
            ELSE Append(loop.newResultSets, resultSet)]

\* findFlowListEntryResultSet, after a slip of it: the predicate forgets
\* withType.
findByTagOnly(entry, withType, withTag) ==
    LET hits == { i \in 1..Len(entry.resultSets) :
                    entry.resultSets[i].sourceQuery.withTag = withTag }
    IN  IF hits = {} THEN Undefined
        ELSE entry.resultSets[CHOOSE i \in hits : \A j \in hits : i <= j]

\* Array.prototype.find: the first match, or undefined.
findFlowListEntryResultSet(entry, withType, withTag) ==
    LET hits == { i \in 1..Len(entry.resultSets) :
                    /\ entry.resultSets[i].sourceQuery.withType = withType
                    /\ entry.resultSets[i].sourceQuery.withTag = withTag }
    IN  IF hits = {} THEN Undefined
        ELSE entry.resultSets[CHOOSE i \in hits : \A j \in hits : i <= j]

flowListEntryFromFlow(flow) == [flow |-> flow, resultSets |-> <<>>]

\* The objects a call of updateFlowListEntryResultSet touches: the entry
\* passed in and its array, the array the function creates and the object it
\* returns. An entry object holds its flow and a reference to its array.
Refs == {"fle", "fle.resultSets", "newResultSets", "returned"}

\* The memory in which the caller holds `entry` and nothing else.
Held(entry) ==
    [r \in Refs |->
        CASE r = "fle" -> [flow |-> entry.flow, resultSets |-> "fle.resultSets"]
          [] r = "fle.resultSets" -> entry.resultSets
          [] OTHER -> Undefined]

\* The entry that the reference r stands for in the memory m.
Deref(m, r) == [flow |-> m[r].flow, resultSets |-> m[m[r].resultSets]]

\* The stores of updateFlowListEntryResultSet, after a slip of it: the loop
\* writes into fle.resultSets and the function returns fle.
storesInPlace(m, resultSet) ==
    LET result == updateFlowListEntryResultSet(Deref(m, "fle"), resultSet)
    IN  [memory |-> [m EXCEPT !["fle.resultSets"] = result.resultSets],
         returned |-> "fle"]

\* The stores of updateFlowListEntryResultSet: every push goes to the array
\* newResultSets, and the object returned is a new one, with the fields of
\* fle but for resultSets, which refers to newResultSets.
updateFlowListEntryResultSetStores(m, resultSet) ==
    LET result == updateFlowListEntryResultSet(Deref(m, "fle"), resultSet)
    IN  [memory |-> [m EXCEPT !["newResultSets"] = result.resultSets,
                              !["returned"] = [flow |-> m["fle"].flow,
                                               resultSets |-> "newResultSets"]],
         returned |-> "returned"]

VARIABLES
    fle,        \* the flow list entry the caller holds
    arg,        \* the entry passed to the last update call
    resultSet,  \* the result set passed to the last update call
    found,      \* the last lookup since then: its arguments and its result
    called,     \* the function called last
    memory,     \* the objects of the last call, as they are after it
    returned    \* the reference the last update or fromFlow call returned

flowVars == <<fle, arg, resultSet, found, called, memory, returned>>

----------------------------------------------------------------------------
(* grrUi.stats.reportDirective.ReportController *)

\* User and parent events (parameter changes, edits, refreshes) in one run.
MaxEvents == 2

MONTH_SECONDS == 30 * 24 * 60 * 60

\* moment().valueOf() when the script is loaded. Numbers are held in units of
\* 10^6 of the source's unit, so that they stay within 32 bits: this instant
\* in 10^6 ms, the microsecond timestamps below in 10^6 us (seconds).
MomentValueOf == 1793730

\* (moment().valueOf() - MONTH_SECONDS * 1000) * 1000
DEFAULT_START_TIME == (MomentValueOf - MONTH_SECONDS \div 1000) * 1000

DEFAULT_DURATION == MONTH_SECONDS

DEFAULT_CLIENT_LABEL == ""

\* Values the parent binds to the directive's attributes.
Names == {Undefined, Str(""), Str("X")}
StartTimes == {Undefined, Null, Num(DEFAULT_START_TIME + MONTH_SECONDS)}
Durations == {Undefined, Null, Num(60 * 60)}
ClientLabels == {Undefined, Null, Str("L")}

Scopes == [name : Names, startTime : StartTimes, duration : Durations,
           clientLabel : ClientLabels]

\* Values the user types into the time range and label fields.
TypedStartTimes == {Num(DEFAULT_START_TIME + MONTH_SECONDS)}
TypedDurations == {Num(0)}
TypedClientLabels == {Str(""), Str("L")}

\* The backend wraps every value in its type; stripTypeInfo takes a wrapped
\* struct and returns its fields unwrapped.
TypeWrap(type, value) == [type |-> type, value |-> value]

stripTypeInfo(wrapped) ==
    [k \in DOMAIN wrapped.value |-> wrapped.value[k].value]

\* The type tag of the report a URL names.
ReportType(url) == IF url = "stats/reports/X" THEN "CLIENT" ELSE "FILE_STORE"

upperCaseToTitleCase(type) ==
    IF type = "CLIENT" THEN Str("Client") ELSE Str("File Store")

\* GET stats/reports/{name}?start_time&duration&client_label: the report of
\* that name for that time range and label, {data, desc}, type-wrapped.
ServerResponse(request) ==
    [data |->
        [data |-> TypeWrap("ApiReportData",
                    [start_time |-> TypeWrap("RDFDatetime", request.params.start_time),
                     duration |-> TypeWrap("Duration", request.params.duration),
                     client_label |-> TypeWrap("unicode", request.params.client_label)]),
         desc |-> TypeWrap("ApiReportDescriptor",
                    [name |-> TypeWrap("unicode", request.url),
                     type |-> TypeWrap("EnumNamedValue", ReportType(request.url))])]]

\* The state of a controller after its constructor has run.
NewController ==
    [state |-> "INITIAL",
     titleCasedType |-> Undefined,
     reportData |-> Undefined,
     reportDesc |-> Undefined,
     startTime |-> Num(DEFAULT_START_TIME),
     typedStartTime |-> Undefined,
     duration |-> Num(DEFAULT_DURATION),
     typedDuration |-> Undefined,
     clientLabel |-> Str(DEFAULT_CLIENT_LABEL),
     modelClientLabel |-> Str(DEFAULT_CLIENT_LABEL)]

\* One parameter of onParamsChange_, Normalize: if (bound) this.x = bound;
\* if (bound === null) this.x = DEFAULT. Before it, two slips of it: one
\* without the null test, one that resets on every unusable value.
NormalizeIgnoringNull(current, bound, default) ==
    IF Truthy(bound) THEN bound ELSE current

NormalizeDefaultWhenMissing(current, bound, default) ==
    IF Truthy(bound) THEN bound ELSE default

Normalize(current, bound, default) ==
    IF Truthy(bound) THEN bound
    ELSE IF bound = Null THEN default
    ELSE current

\* The test `if (name)` of onParamsChange_ and fetchData_, HasName, and
\* before it the test `name !== undefined` in its place.
HasNameUnlessUndefined(sc) == sc.name # Undefined

HasName(sc) == Truthy(sc.name)

Request(name, c) ==
    [url |-> "stats/reports/" \o (IF name.kind = "string" THEN name.val ELSE name.kind),
     params |-> [start_time |-> c.startTime,
                 duration |-> c.duration,
                 client_label |-> c.clientLabel]]

\* The result of a handler on the controller c with the requests `pending`
\* in flight: the controller, the requests in flight, the requests it sent.
Ran(c, pending, sent) == [controller |-> c, requests |-> pending, sent |-> sent]

\* fetchData_ up to the request it sends; the callback is ResponseSuccess.
\* Before it, a fetchData_ that drops the requests in flight.
fetchData_Cancelling(c, sc, pending) ==
    IF HasName(sc)
    THEN Ran([c EXCEPT !.state = "LOADING"],
             <<Request(sc.name, c)>>, <<Request(sc.name, c)>>)
    ELSE Ran(c, pending, <<>>)

fetchData_(c, sc, pending) ==
    IF HasName(sc)
    THEN Ran([c EXCEPT !.state = "LOADING"],
             Append(pending, Request(sc.name, c)), <<Request(sc.name, c)>>)
    ELSE Ran(c, pending, <<>>)

\* onParamsChange_, after a slip of it: without a name it goes back to the
\* "Select a report" view.
onParamsChange_Resetting(c, sc, pending) ==
    LET c1 == [c EXCEPT
                 !.startTime = Normalize(@, sc.startTime, Num(DEFAULT_START_TIME)),
                 !.duration = Normalize(@, sc.duration, Num(DEFAULT_DURATION)),
                 !.clientLabel = Normalize(@, sc.clientLabel,
                                           Str(DEFAULT_CLIENT_LABEL))]
    IN  IF HasName(sc) THEN fetchData_(c1, sc, pending)
        ELSE Ran([c1 EXCEPT !.state = "INITIAL"], pending, <<>>)

onParamsChange_(c, sc, pending) ==
    LET c1 == [c EXCEPT
                 !.startTime = Normalize(@, sc.startTime, Num(DEFAULT_START_TIME)),
                 !.duration = Normalize(@, sc.duration, Num(DEFAULT_DURATION)),
                 !.clientLabel = Normalize(@, sc.clientLabel, Str(DEFAULT_CLIENT_LABEL))]
    IN  IF HasName(sc) THEN fetchData_(c1, sc, pending)
        ELSE Ran(c1, pending, <<>>)

\* The watchers on controller.startTime, controller.duration and
\* controller.clientLabel, run on a change of the value from old to c.
ControllerWatches(old, c, first) ==
    [c EXCEPT
       !.typedStartTime =
           IF @ # Undefined /\ c.startTime # old.startTime
           THEN [value |-> c.startTime] ELSE @,
       !.typedDuration =
           IF @ # Undefined /\ c.duration # old.duration
           THEN [value |-> c.duration] ELSE @,
       !.modelClientLabel =
           IF first \/ c.clientLabel # old.clientLabel
           THEN c.clientLabel ELSE @]

\* One $digest: the $watchGroup on name, startTime, duration and clientLabel
\* calls onParamsChange_ on the first digest and whenever one of them has
\* changed, then the controller watches run.
Digest(c, oldScope, sc, pending, first) ==
    LET fires == first \/ sc # oldScope
        after == IF fires THEN onParamsChange_(c, sc, pending)
                 ELSE Ran(c, pending, <<>>)
    IN  [controller |-> ControllerWatches(c, after.controller, first),
         requests |-> after.requests,
         sent |-> after.sent,
         fired |-> fires]

\* refreshReport, after a slip of it: it also clears the bound name.
refreshReportClearingName(c, sc) ==
    IF c.typedStartTime = Undefined THEN sc
    ELSE IF c.typedDuration = Undefined
         THEN [sc EXCEPT !.startTime = c.typedStartTime.value]
    ELSE [sc EXCEPT !.startTime = c.typedStartTime.value,
                    !.duration = c.typedDuration.value,
                    !.clientLabel = c.modelClientLabel,
                    !.name = Str("")]

\* refreshReport: the three assignments, the first of which to read a typed
\* value that does not exist yet throws.
refreshReport(c, sc) ==
    IF c.typedStartTime = Undefined THEN sc
    ELSE IF c.typedDuration = Undefined
         THEN [sc EXCEPT !.startTime = c.typedStartTime.value]
    ELSE [sc EXCEPT !.startTime = c.typedStartTime.value,
                    !.duration = c.typedDuration.value,
                    !.clientLabel = c.modelClientLabel]

RemoveAt(s, i) == SubSeq(s, 1, i - 1) \o SubSeq(s, i + 1, Len(s))

VARIABLES
    scope,       \* the directive's isolate scope: name, startTime, duration, clientLabel
    controller,  \* the fields of the ReportController
    requests,    \* the report requests in flight, in the order they were sent
    linked,      \* whether the first digest has run
    fetched,     \* whether fetchData_ has sent a request yet
    budget,      \* events left to the user and the parent
    event        \* the last step: what ran, and the requests it sent or answered

reportVars == <<scope, controller, requests, linked, fetched, budget, event>>

\* The record of a step: the handler that ran, whether its digest called
\* onParamsChange_, the requests it sent, the request it answered and the
\* report data the answer took the place of.
Event(op, fired, issued, answered, replaced) ==
    [op |-> op, fired |-> fired, issued |-> issued,
     answered |-> answered, replaced |-> replaced]

NoEvent == Event("init", FALSE, <<>>, Undefined, Undefined)

ReportInit ==
    /\ scope \in Scopes
    /\ controller = NewController
    /\ requests = <<>>
    /\ linked = FALSE
    /\ fetched = FALSE
    /\ budget = MaxEvents
    /\ event = NoEvent

\* The handler has run and left the scope as sc and the controller as c:
\* the digest that follows it.
AfterHandler(op, c, sc, first) ==
    LET d == Digest(c, scope, sc, requests, first)
    IN  /\ scope' = sc
        /\ controller' = d.controller
        /\ requests' = d.requests
        /\ fetched' = (fetched \/ d.sent # <<>>)
        /\ event' = Event(op, d.fired, d.sent, Undefined, Undefined)

Link ==
    /\ ~linked
    /\ linked' = TRUE
    /\ AfterHandler("link", controller, scope, TRUE)
    /\ UNCHANGED <<budget, flowVars>>

\* The parent changes one of the bound attributes.
SetParam(field, value) ==
    /\ linked
    /\ budget > 0
    /\ value # scope[field]
    /\ budget' = budget - 1
    /\ AfterHandler("params", controller, [scope EXCEPT ![field] = value], FALSE)
    /\ UNCHANGED <<linked, flowVars>>

RdfDatetimeLoaded ==
    /\ linked
    /\ controller.typedStartTime = Undefined
    /\ AfterHandler("rdfDatetime",
                    [controller EXCEPT !.typedStartTime = [value |-> controller.startTime]],
                    scope, FALSE)
    /\ UNCHANGED <<linked, budget, flowVars>>

RdfDurationLoaded ==
    /\ linked
    /\ controller.typedStartTime # Undefined
    /\ controller.typedDuration = Undefined
    /\ AfterHandler("rdfDuration",
                    [controller EXCEPT !.typedDuration = [value |-> controller.duration]],
                    scope, FALSE)
    /\ UNCHANGED <<linked, budget, flowVars>>

\* The user edits a field of the form.
EditStartTime(value) ==
    /\ linked
    /\ budget > 0
    /\ controller.typedStartTime # Undefined
    /\ controller.typedStartTime.value # value
    /\ budget' = budget - 1
    /\ AfterHandler("edit", [controller EXCEPT !.typedStartTime = [value |-> value]],
                    scope, FALSE)
    /\ UNCHANGED <<linked, flowVars>>

EditDuration(value) ==
    /\ linked
    /\ budget > 0
    /\ controller.typedDuration # Undefined
    /\ controller.typedDuration.value # value
    /\ budget' = budget - 1
    /\ AfterHandler("edit", [controller EXCEPT !.typedDuration = [value |-> value]],
                    scope, FALSE)
    /\ UNCHANGED <<linked, flowVars>>

EditClientLabel(value) ==
    /\ linked
    /\ budget > 0
    /\ controller.modelClientLabel # value
    /\ budget' = budget - 1
    /\ AfterHandler("edit", [controller EXCEPT !.modelClientLabel = value],
                    scope, FALSE)
    /\ UNCHANGED <<linked, flowVars>>

RefreshReport ==
    /\ linked
    /\ budget > 0
    /\ budget' = budget - 1
    /\ AfterHandler("refresh", controller, refreshReport(controller, scope), FALSE)
    /\ UNCHANGED <<linked, flowVars>>

\* The callback of fetchData_, after a slip of it: it shows the response but
\* leaves the state LOADING while other requests are in flight.
ResponseSuccessWhenLast(i) ==
    LET response == ServerResponse(requests[i])
        desc == stripTypeInfo(response.data.desc)
        c == [controller EXCEPT
                !.reportData = stripTypeInfo(response.data.data),
                !.reportDesc = desc,
                !.titleCasedType = upperCaseToTitleCase(desc.type),
                !.state = IF Len(requests) = 1 THEN "LOADED" ELSE @]
        d == Digest(c, scope, scope, RemoveAt(requests, i), FALSE)
    IN  /\ controller' = d.controller
        /\ requests' = d.requests
        /\ event' = Event("success", d.fired, d.sent, requests[i],
                           controller.reportData)
        /\ UNCHANGED <<scope, linked, fetched, budget, flowVars>>

\* The callback of fetchData_, after another slip of it: it drops the
\* response to a request that is not the one for the current parameters.
ResponseSuccessIgnoringStale(i) ==
    LET response == ServerResponse(requests[i])
        desc == stripTypeInfo(response.data.desc)
        c == IF requests[i] # Request(scope.name, controller) THEN controller
             ELSE [controller EXCEPT
                     !.reportData = stripTypeInfo(response.data.data),
                     !.reportDesc = desc,
                     !.titleCasedType = upperCaseToTitleCase(desc.type),
                     !.state = "LOADED"]
        d == Digest(c, scope, scope, RemoveAt(requests, i), FALSE)
    IN  /\ controller' = d.controller
        /\ requests' = d.requests
        /\ event' = Event("success", d.fired, d.sent, requests[i],
                           controller.reportData)
        /\ UNCHANGED <<scope, linked, fetched, budget, flowVars>>

\* The callback of fetchData_ on the response to the i-th request in flight.
ResponseSuccess(i) ==
    LET response == ServerResponse(requests[i])
        desc == stripTypeInfo(response.data.desc)
        c == [controller EXCEPT
                !.reportData = stripTypeInfo(response.data.data),
                !.reportDesc = desc,
                !.titleCasedType = upperCaseToTitleCase(desc.type),
                !.state = "LOADED"]
        d == Digest(c, scope, scope, RemoveAt(requests, i), FALSE)
    IN  /\ controller' = d.controller
        /\ requests' = d.requests
        /\ event' = Event("success", d.fired, d.sent, requests[i],
                           controller.reportData)
        /\ UNCHANGED <<scope, linked, fetched, budget, flowVars>>

\* The i-th request in flight fails: its promise is rejected, and fetchData_
\* has given it no rejection callback. Before it, a rejection callback that
\* resets the state.
ResponseFailureResets(i) ==
    /\ requests' = RemoveAt(requests, i)
    /\ controller' = [controller EXCEPT !.state = "INITIAL"]
    /\ event' = Event("failure", FALSE, <<>>, requests[i], Undefined)
    /\ UNCHANGED <<scope, linked, fetched, budget, flowVars>>

ResponseFailure(i) ==
    /\ requests' = RemoveAt(requests, i)
    /\ event' = Event("failure", FALSE, <<>>, requests[i], Undefined)
    /\ UNCHANGED <<scope, controller, linked, fetched, budget, flowVars>>

SetParamStep ==
    \/ \E v \in Names : SetParam("name", v)
    \/ \E v \in StartTimes : SetParam("startTime", v)
    \/ \E v \in Durations : SetParam("duration", v)
    \/ \E v \in ClientLabels : SetParam("clientLabel", v)
EditStep ==
    \/ \E v \in TypedStartTimes : EditStartTime(v)
    \/ \E v \in TypedDurations : EditDuration(v)
    \/ \E v \in TypedClientLabels : EditClientLabel(v)
ResponseSuccessStep == \E i \in 1..Len(requests) : ResponseSuccess(i)
ResponseFailureStep == \E i \in 1..Len(requests) : ResponseFailure(i)

ReportNext ==
    \/ Link
    \/ SetParamStep
    \/ RdfDatetimeLoaded
    \/ RdfDurationLoaded
    \/ EditStep
    \/ RefreshReport
    \/ ResponseSuccessStep
    \/ ResponseFailureStep


----------------------------------------------------------------------------
(* Calls of the flow model utilities, and the specifications *)

vars == <<flowVars, reportVars>>

\* The report controller before anything has happened to it.
ReportIdle ==
    /\ scope = [name |-> Undefined, startTime |-> Undefined,
                duration |-> Undefined, clientLabel |-> Undefined]
    /\ controller = NewController
    /\ requests = <<>>
    /\ linked = FALSE
    /\ fetched = FALSE
    /\ budget = 0
    /\ event = NoEvent

FlowIdle ==
    /\ arg = Undefined
    /\ resultSet = Undefined
    /\ found = Undefined
    /\ called = "none"
    /\ memory = Held(fle)
    /\ returned = "fle"

\* Any value of the FlowListEntry type.
InitAnyEntry == fle \in FlowListEntry /\ FlowIdle /\ ReportIdle

\* An entry as the flows list first creates it.
InitFromFlow ==
    fle \in {flowListEntryFromFlow(f) : f \in Flows} /\ FlowIdle /\ ReportIdle

Update(rs) ==
    /\ Len(fle.resultSets) <= MaxResultSets
    /\ arg' = fle
    /\ resultSet' = rs
    /\ fle' = updateFlowListEntryResultSet(fle, rs)
    /\ found' = Undefined
    /\ called' = "update"
    /\ LET stores == updateFlowListEntryResultSetStores(Held(fle), rs)
       IN  memory' = stores.memory /\ returned' = stores.returned
    /\ UNCHANGED reportVars

Find(withType, withTag) ==
    /\ found' = [withType |-> withType, withTag |-> withTag,
                  result |-> findFlowListEntryResultSet(fle, withType, withTag)]
    /\ called' = "find"
    /\ UNCHANGED <<fle, arg, resultSet, memory, returned, reportVars>>

FromFlow(flow) ==
    /\ fle' = flowListEntryFromFlow(flow)
    /\ arg' = Undefined
    /\ resultSet' = Undefined
    /\ found' = Undefined
    /\ called' = "fromFlow"
    /\ memory' = Held(flowListEntryFromFlow(flow))
    /\ returned' = "fle"
    /\ UNCHANGED reportVars

UpdateStep == \E rs \in FlowResultSet : Update(rs)
FindStep == \E ty \in WithTypes, tg \in WithTags : Find(ty, tg)
FromFlowStep == \E f \in Flows : FromFlow(f)

FlowNext == UpdateStep \/ FindStep \/ FromFlowStep

SpecFlow == InitAnyEntry /\ [][FlowNext]_vars
SpecEntry == InitFromFlow /\ [][FlowNext]_vars

\* The report controller, next to a flow list entry nothing is done to.
Init == ReportInit /\ fle = flowListEntryFromFlow("F1") /\ FlowIdle
Next == ReportNext
Spec == Init /\ [][Next]_vars

\* The report controller with a backend that answers every request: no
\* request fails, and the callback of a response that has arrived is run, as
\* the event loop runs every callback that is due.
NextAnswered ==
    \/ Link
    \/ SetParamStep
    \/ RdfDatetimeLoaded
    \/ RdfDurationLoaded
    \/ EditStep
    \/ RefreshReport
    \/ ResponseSuccessStep

\* The callback of a response is run: its request leaves the requests in
\* flight. Among the steps of NextAnswered these are the ResponseSuccess steps.
Delivered == \E i \in 1..Len(requests) : requests' = RemoveAt(requests, i)

SpecAnswered ==
    Init /\ [][NextAnswered]_vars /\ WF_requests(Delivered)

----------------------------------------------------------------------------
(* Properties of the flow model utilities *)

FilterKey(rs) == <<rs.sourceQuery.withType, rs.sourceQuery.withTag>>

Range(s) == {s[i] : i \in 1..Len(s)}

\* Positions of a list that carry the filter key of rs.
Matches(list, rs) == {i \in 1..Len(list) : FilterKey(list[i]) = FilterKey(rs)}

\* Positions at which two lists of equal length differ.
Differing(a, b) == {i \in 1..Len(a) : a[i] # b[i]}

Deduplicated(list) ==
    \A i, j \in 1..Len(list) : i # j => FilterKey(list[i]) # FilterKey(list[j])

\* C1 as stated, for any input list: with a matching pair the result has the
\* same length and is the input changed in one position, which holds the
\* merged set; without one the merged set is appended.
C1_ExactlyOnePositionReplaced ==
    called = "update" =>
        LET old == arg.resultSets
            new == fle.resultSets
        IN  IF Matches(old, resultSet) # {}
            THEN /\ Len(new) = Len(old)
                 /\ \E i \in 1..Len(old) :
                       /\ new[i] = resultSet
                       /\ \A j \in 1..Len(old) : j # i => new[j] = old[j]
            ELSE new = Append(old, resultSet)

\* C1 amended: with a matching pair the result has the same length, holds the
\* merged set at every position that carried its pair and equals the input
\* elsewhere; on an input with one result set per pair that is one position,
\* which differs from the input only if it did not hold the merged set
\* already. Without a matching pair the merged set is appended.
C1_MatchingPositionsReplaced ==
    called = "update" =>
        LET old == arg.resultSets
            new == fle.resultSets
            hit == Matches(old, resultSet)
        IN  IF hit # {}
            THEN /\ Len(new) = Len(old)
                 /\ \A i \in 1..Len(old) :
                       new[i] = IF i \in hit THEN resultSet ELSE old[i]
                 /\ Deduplicated(old) =>
                       /\ Cardinality(hit) = 1
                       /\ Differing(old, new) = {i \in hit : old[i] # resultSet}
            ELSE new = Append(old, resultSet)

\* C1 witness: an update replaced the one matching result set of a
\* two-element entry by a different one.
C1_Witness ==
    /\ called = "update"
    /\ Len(arg.resultSets) = 2
    /\ Cardinality(Matches(arg.resultSets, resultSet)) = 1
    /\ Cardinality(Differing(arg.resultSets, fle.resultSets)) = 1

\* C2: merging the result set that was just merged again returns an entry
\* with the same flow and the same resultSets list.
C2_MergeIdempotent ==
    called = "update" =>
        LET again == updateFlowListEntryResultSet(fle, resultSet)
        IN  /\ again.flow = fle.flow
            /\ again.resultSets = fle.resultSets
            /\ Len(again.resultSets) = Len(fle.resultSets)

\* C2 witness: a result set was merged into an entry of several result sets
\* that held it already, as after a first merge of it, and the entry came
\* back unchanged.
C2_Witness ==
    /\ called = "update"
    /\ arg = fle
    /\ Len(fle.resultSets) >= 2
    /\ resultSet \in Range(fle.resultSets)

\* C3: an entry built from flowListEntryFromFlow by updates holds at most one
\* result set per (withType, withTag) pair, undefined being a value of its own.
C3_DeduplicatedByFilterKey == Deduplicated(fle.resultSets)

\* C3 witness: an update replaced a result set in an entry that holds both
\* the undefined tag and the empty tag.
C3_Witness ==
    /\ called = "update"
    /\ Len(fle.resultSets) = Len(arg.resultSets)
    /\ fle # arg
    /\ \E i, j \in 1..Len(fle.resultSets) :
          /\ fle.resultSets[i].sourceQuery.withTag = Undefined
          /\ fle.resultSets[j].sourceQuery.withTag = Str("")
          /\ fle.resultSets[i].sourceQuery.withType =
                fle.resultSets[j].sourceQuery.withType

\* C10: the identity of a result set is its (withType, withTag) pair: a merged
\* set takes the place of every held set with its pair, whatever their offset,
\* count, flowId, state and items, and every held set that differs in withType
\* or in withTag stays where it was, alongside the merged set.
C10_IdentityIsFilterKey ==
    called = "update" =>
        \A i \in 1..Len(arg.resultSets) :
            LET held == arg.resultSets[i]
                sameType == held.sourceQuery.withType = resultSet.sourceQuery.withType
                sameTag == held.sourceQuery.withTag = resultSet.sourceQuery.withTag
            IN  IF sameType /\ sameTag
                THEN /\ fle.resultSets[i] = resultSet
                     /\ held # resultSet => held \notin Range(fle.resultSets)
                ELSE /\ fle.resultSets[i] = held
                     /\ resultSet \in Range(fle.resultSets)

\* C10 witness: the merged set replaced a set with its pair and another
\* offset, count, flowId, state and items, next to a set that differs from it
\* only in having no tag.
C10_Witness ==
    /\ called = "update"
    /\ \E i, j \in 1..Len(arg.resultSets) :
          LET held == arg.resultSets[i]
              other == arg.resultSets[j]
          IN  /\ FilterKey(held) = FilterKey(resultSet)
              /\ held.sourceQuery.offset # resultSet.sourceQuery.offset
              /\ held.sourceQuery.count # resultSet.sourceQuery.count
              /\ held.sourceQuery.flowId # resultSet.sourceQuery.flowId
              /\ held.state # resultSet.state
              /\ held.items # resultSet.items
              /\ fle.resultSets[i] = resultSet
              /\ other.sourceQuery.withType = resultSet.sourceQuery.withType
              /\ other.sourceQuery.withTag = Undefined
              /\ resultSet.sourceQuery.withTag # Undefined
              /\ fle.resultSets[j] = other

\* C11: a lookup on the entry an update has returned gives the merged set
\* for the merged set's (withType, withTag) pair and, for any other pair, what
\* the lookup gives on the entry that was passed to the update; a lookup for a
\* pair no held result set carries, as on any entry fresh from
\* flowListEntryFromFlow, gives undefined.
C11_LookupAgreesWithMerge ==
    called = "find" =>
        /\ arg # Undefined =>
              /\ fle = updateFlowListEntryResultSet(arg, resultSet)
              /\ found.result =
                    IF <<found.withType, found.withTag>> = FilterKey(resultSet)
                    THEN resultSet
                    ELSE findFlowListEntryResultSet(arg, found.withType, found.withTag)
        /\ (\A i \in 1..Len(fle.resultSets) :
                FilterKey(fle.resultSets[i]) # <<found.withType, found.withTag>>)
              => found.result = Undefined
        /\ fle \in {flowListEntryFromFlow(f) : f \in Flows} =>
              found.result = Undefined
        /\ found.result # Undefined =>
              /\ found.result \in Range(fle.resultSets)
              /\ FilterKey(found.result) = <<found.withType, found.withTag>>

\* C11 witness: a lookup for the merged set's pair on an updated entry of two
\* result sets has returned the merged set, which is held second, behind a
\* set with its tag and another type, and took the place of another window.
C11_Witness ==
    /\ called = "find"
    /\ arg # Undefined
    /\ Len(arg.resultSets) = 2
    /\ Len(fle.resultSets) = 2
    /\ <<found.withType, found.withTag>> = FilterKey(resultSet)
    /\ found.result = resultSet
    /\ fle.resultSets[2] = resultSet
    /\ arg.resultSets[2] # resultSet
    /\ fle.resultSets[1].sourceQuery.withTag = resultSet.sourceQuery.withTag

\* C11 witness of the other cases: a lookup for another pair than the merged
\* set's has returned the set the entry held for it before the update, and a
\* lookup on a fresh entry has returned undefined.
C11_WitnessOtherPair ==
    /\ called = "find"
    /\ arg # Undefined
    /\ <<found.withType, found.withTag>> # FilterKey(resultSet)
    /\ found.result # Undefined
    /\ found.result = arg.resultSets[1]

\* The result sets of a list whose (withType, withTag) pair is not that of rs,
\* in the order of the list.
OtherPairs(list, rs) ==
    LET differs(held) == FilterKey(held) # FilterKey(rs)
    IN  SelectSeq(list, differs)

\* C12: an update call stores nothing into the entry passed to it or into
\* that entry's resultSets array, which are after the call what they were
\* before it; it returns another object, with another array; the entry
\* returned has the flow of the entry passed in and, of the result sets with
\* another pair than the merged set's, the same ones in the same order. A
\* lookup changes neither the entry nor any object.
C12_NoSideEffects ==
    [][ /\ called' = "update" =>
              /\ memory'["fle"] = Held(fle)["fle"]
              /\ memory'["fle.resultSets"] = fle.resultSets
              /\ Deref(memory', "fle") = fle
              /\ arg' = fle
              /\ returned' # "fle"
              /\ memory'[returned'].resultSets # "fle.resultSets"
              /\ Deref(memory', returned') = fle'
              /\ fle'.flow = fle.flow
              /\ OtherPairs(fle'.resultSets, resultSet') =
                    OtherPairs(fle.resultSets, resultSet')
        /\ called' = "find" =>
              /\ fle' = fle
              /\ memory' = memory
              /\ returned' = returned
              /\ arg' = arg
              /\ resultSet' = resultSet
      ]_vars

\* C12 witness: an update has replaced the first of two held result sets and
\* kept the second, of another pair; the array passed in still holds the
\* replaced set, and the array returned is another one.
C12_Witness ==
    /\ called = "update"
    /\ Len(arg.resultSets) = 2
    /\ FilterKey(arg.resultSets[1]) = FilterKey(resultSet)
    /\ FilterKey(arg.resultSets[2]) # FilterKey(resultSet)
    /\ arg.resultSets[1] # resultSet
    /\ memory["fle.resultSets"] = arg.resultSets
    /\ returned = "returned"
    /\ memory[returned].resultSets = "newResultSets"
    /\ memory["newResultSets"] = <<resultSet, arg.resultSets[2]>>
    /\ fle.resultSets = memory["newResultSets"]

----------------------------------------------------------------------------
(* Properties of the report controller *)

\* The request a parameter change sends for the scope sc and controller c.
ReportRequest(sc, c) ==
    [url |-> "stats/reports/" \o sc.name.val,
     params |-> [start_time |-> c.startTime, duration |-> c.duration,
                 client_label |-> c.clientLabel]]

NonEmptyName(sc) == sc.name.kind = "string" /\ sc.name.val # ""

\* What the view shows of the response to a request.
Shown(request) ==
    LET desc == [name |-> request.url, type |-> "CLIENT"]
    IN  [reportData |-> [start_time |-> request.params.start_time,
                         duration |-> request.params.duration,
                         client_label |-> request.params.client_label],
         reportDesc |-> desc,
         titleCasedType |-> Str("Client")]

\* C4: a parameter change while the name is empty or undefined sends no
\* request and leaves the state as it was (INITIAL as long as nothing was
\* fetched); one with a non-empty name X sends exactly one GET to
\* stats/reports/X with the controller's current startTime, duration and
\* clientLabel and sets the state to LOADING; nothing else sends a request,
\* and the state becomes LOADED only in the callback of a successful response.
C4_FetchOnlyWithName ==
    [][ /\ (event'.fired /\ ~NonEmptyName(scope')) =>
              /\ event'.issued = <<>>
              /\ requests' = requests
              /\ controller'.state = controller.state
        /\ (event'.fired /\ NonEmptyName(scope')) =>
              /\ event'.issued = <<ReportRequest(scope', controller')>>
              /\ requests' = Append(requests, ReportRequest(scope', controller'))
              /\ controller'.state = "LOADING"
        /\ ~event'.fired => event'.issued = <<>>
        /\ ~fetched' => controller'.state = "INITIAL"
        /\ (controller'.state = "LOADED" /\ controller.state # "LOADED") =>
              event'.op = "success"
      ]_vars

\* C4 witness: a parameter change with the name X has sent a request while an
\* earlier one was in flight, and one with an empty name has since left the
\* state LOADING.
C4_Witness ==
    /\ event.op = "params"
    /\ event.fired
    /\ scope.name = Str("")
    /\ controller.state = "LOADING"
    /\ Len(requests) = 2
    /\ requests[2].url = "stats/reports/X"

\* C5: a parameter change in which a bound parameter is null sets the
\* controller's value to its default (DEFAULT_START_TIME, 30 days before the
\* load instant, DEFAULT_DURATION, 30 days in seconds, DEFAULT_CLIENT_LABEL,
\* the empty string), and the request sent by that change carries it.
C5_NullRestoresDefault ==
    /\ DEFAULT_START_TIME = MomentValueOf * 1000 - 30 * 24 * 60 * 60
    /\ DEFAULT_DURATION = 30 * 24 * 60 * 60
    /\ DEFAULT_CLIENT_LABEL = ""
    /\ event.fired =>
        /\ NonEmptyName(scope) => Len(event.issued) = 1
        /\ scope.startTime = Null =>
            /\ controller.startTime = Num(DEFAULT_START_TIME)
            /\ \A i \in 1..Len(event.issued) :
                  event.issued[i].params.start_time = Num(DEFAULT_START_TIME)
        /\ scope.duration = Null =>
            /\ controller.duration = Num(DEFAULT_DURATION)
            /\ \A i \in 1..Len(event.issued) :
                  event.issued[i].params.duration = Num(DEFAULT_DURATION)
        /\ scope.clientLabel = Null =>
            /\ controller.clientLabel = Str(DEFAULT_CLIENT_LABEL)
            /\ \A i \in 1..Len(event.issued) :
                  event.issued[i].params.client_label = Str(DEFAULT_CLIENT_LABEL)

\* C5 witness: after requests with another start time and another label, a
\* change of the bound start time to null has sent a request with the default
\* start time, the label being null as well.
C5_Witness ==
    /\ event.op = "params"
    /\ event.fired
    /\ scope.startTime = Null
    /\ scope.clientLabel = Null
    /\ Len(requests) = 3
    /\ requests[1].params.client_label = Str("L")
    /\ requests[2].params.start_time # Num(DEFAULT_START_TIME)
    /\ requests[2].params.client_label = Str(DEFAULT_CLIENT_LABEL)
    /\ event.issued = <<requests[3]>>
    /\ requests[3].params.start_time = Num(DEFAULT_START_TIME)

\* C6: requests are never cancelled: a step that is not a response leaves the
\* requests in flight in flight, a response is the response to any one of
\* them, whatever the order they were sent in, and each successful response
\* overwrites reportData, reportDesc and titleCasedType with its own content
\* and sets the state to LOADED.
C6_NoCancellation ==
    [][ /\ event'.op \notin {"success", "failure"} =>
              /\ Len(requests') >= Len(requests)
              /\ SubSeq(requests', 1, Len(requests)) = requests
        /\ event'.op \in {"success", "failure"} =>
              \E i \in 1..Len(requests) :
                  /\ event'.answered = requests[i]
                  /\ requests' = RemoveAt(requests, i)
        /\ event'.op = "success" =>
              /\ controller'.reportData = Shown(event'.answered).reportData
              /\ controller'.reportDesc = Shown(event'.answered).reportDesc
              /\ controller'.titleCasedType = Shown(event'.answered).titleCasedType
              /\ controller'.state = "LOADED"
      ]_vars

\* C6 witness: with nothing left in flight the state is LOADED and the view
\* shows the response to a superseded request, which has overwritten the
\* response to the request for the current parameters.
C6_Witness ==
    /\ event.op = "success"
    /\ requests = <<>>
    /\ controller.state = "LOADED"
    /\ NonEmptyName(scope)
    /\ event.replaced = Shown(ReportRequest(scope, controller)).reportData
    /\ controller.reportData = Shown(event.answered).reportData
    /\ controller.reportData # Shown(ReportRequest(scope, controller)).reportData

\* C7 as stated: after a failed request the state is LOADING and
\* reportData, reportDesc and titleCasedType are as they were; there is no
\* state but INITIAL, LOADING and LOADED; and the state leaves LOADING only in
\* the callback of a successful response.
C7_FailedFetchStaysLoading ==
    [][ /\ event'.op = "failure" =>
              /\ controller'.state = "LOADING"
              /\ controller'.reportData = controller.reportData
              /\ controller'.reportDesc = controller.reportDesc
              /\ controller'.titleCasedType = controller.titleCasedType
        /\ controller'.state \in {"INITIAL", "LOADING", "LOADED"}
        /\ (controller.state = "LOADING" /\ controller'.state # "LOADING") =>
              event'.op = "success"
      ]_vars

\* C7 amended: a failed request changes nothing in the controller: the state
\* stays what it was, LOADING, or LOADED when the response to another request
\* has been shown already, and reportData, reportDesc and titleCasedType stay
\* as they were; there is no state but INITIAL, LOADING and LOADED; and the
\* state leaves LOADING only in the callback of a successful response, for
\* LOADED.
C7_FailureChangesNothing ==
    [][ /\ event'.op = "failure" =>
              /\ controller'.state = controller.state
              /\ controller.state = "LOADING" => controller'.state = "LOADING"
              /\ controller'.state # "LOADING" =>
                    /\ controller'.state = "LOADED"
                    /\ controller'.reportData # Undefined
              /\ controller'.reportData = controller.reportData
              /\ controller'.reportDesc = controller.reportDesc
              /\ controller'.titleCasedType = controller.titleCasedType
        /\ controller'.state \in {"INITIAL", "LOADING", "LOADED"}
        /\ (controller.state = "LOADING" /\ controller'.state # "LOADING") =>
              /\ event'.op = "success"
              /\ controller'.state = "LOADED"
      ]_vars

\* C7 witness: the only request in flight has failed, nothing was ever
\* loaded, and the state is LOADING with nothing left to end it.
C7_Witness ==
    /\ event.op = "failure"
    /\ requests = <<>>
    /\ controller.state = "LOADING"
    /\ controller.reportData = Undefined
    /\ controller.reportDesc = Undefined
    /\ controller.titleCasedType = Undefined

C9_MissingFallsBackToDefault ==
    event.fired =>
        /\ (scope.startTime # Null /\ ~Truthy(scope.startTime)) =>
              controller.startTime = Num(DEFAULT_START_TIME)
        /\ (scope.duration # Null /\ ~Truthy(scope.duration)) =>
              controller.duration = Num(DEFAULT_DURATION)
        /\ (scope.clientLabel # Null /\ ~Truthy(scope.clientLabel)) =>
              controller.clientLabel = Str(DEFAULT_CLIENT_LABEL)

\* C9 amended: a parameter change in which a bound parameter is undefined, 0
\* or the empty string leaves the controller's value for it as it was, which
\* is the default on the first change and whatever an earlier change has set
\* afterwards; the request sent carries that value.
C9_MissingKeepsCurrentValue ==
    [][ event'.fired =>
          /\ (scope'.startTime # Null /\ ~Truthy(scope'.startTime)) =>
                /\ controller'.startTime = controller.startTime
                /\ event'.op = "link" => controller'.startTime = Num(DEFAULT_START_TIME)
          /\ (scope'.duration # Null /\ ~Truthy(scope'.duration)) =>
                /\ controller'.duration = controller.duration
                /\ event'.op = "link" => controller'.duration = Num(DEFAULT_DURATION)
          /\ (scope'.clientLabel # Null /\ ~Truthy(scope'.clientLabel)) =>
                /\ controller'.clientLabel = controller.clientLabel
                /\ event'.op = "link" =>
                      controller'.clientLabel = Str(DEFAULT_CLIENT_LABEL)
          /\ \A i \in 1..Len(event'.issued) :
                event'.issued[i].params =
                    [start_time |-> controller'.startTime,
                     duration |-> controller'.duration,
                     client_label |-> controller'.clientLabel]
      ]_vars

\* C9 witness: the bound start time has become undefined after it was set,
\* and the request sent by that change carries the start time set before.
C9_Witness ==
    /\ event.op = "params"
    /\ event.fired
    /\ scope.startTime = Undefined
    /\ controller.startTime # Num(DEFAULT_START_TIME)
    /\ Len(event.issued) = 1
    /\ event.issued[1].params.start_time = controller.startTime

\* The fields of the controller that a request is built from or that the view
\* shows.
Canonical(c) ==
    [state |-> c.state, startTime |-> c.startTime, duration |-> c.duration,
     clientLabel |-> c.clientLabel, reportData |-> c.reportData,
     reportDesc |-> c.reportDesc]

\* C13: refreshReport writes the bound startTime, duration and clientLabel,
\* with the edited values, and nothing else: state, the controller's
\* startTime, duration and clientLabel, reportData and reportDesc change in a
\* refresh only if the parameter watch fires on what refreshReport wrote, and
\* only then is a request sent. In any step the controller's startTime,
\* duration and clientLabel change only where onParamsChange_ runs, to the
\* value it takes from the bound parameter, and the bound name changes only
\* when the parent changes it.
C13_OneDirectional ==
    [][ /\ event'.op = "refresh" =>
              /\ scope'.name = scope.name
              /\ scope'.startTime # scope.startTime =>
                    /\ controller.typedStartTime # Undefined
                    /\ scope'.startTime = controller.typedStartTime.value
              /\ scope'.duration # scope.duration =>
                    /\ controller.typedDuration # Undefined
                    /\ scope'.duration = controller.typedDuration.value
              /\ scope'.clientLabel # scope.clientLabel =>
                    scope'.clientLabel = controller.modelClientLabel
              /\ (controller.typedStartTime # Undefined
                    /\ controller.typedDuration # Undefined) =>
                    /\ scope'.startTime = controller.typedStartTime.value
                    /\ scope'.duration = controller.typedDuration.value
                    /\ scope'.clientLabel = controller.modelClientLabel
              /\ event'.fired <=> scope' # scope
              /\ ~event'.fired =>
                    /\ Canonical(controller') = Canonical(controller)
                    /\ requests' = requests
                    /\ event'.issued = <<>>
        /\ event'.op \notin {"refresh", "params"} => scope' = scope
        /\ scope'.name # scope.name => event'.op = "params"
        /\ controller'.startTime # controller.startTime =>
              /\ event'.fired
              /\ controller'.startTime =
                    Normalize(controller.startTime, scope'.startTime,
                              Num(DEFAULT_START_TIME))
        /\ controller'.duration # controller.duration =>
              /\ event'.fired
              /\ controller'.duration =
                    Normalize(controller.duration, scope'.duration,
                              Num(DEFAULT_DURATION))
        /\ controller'.clientLabel # controller.clientLabel =>
              /\ event'.fired
              /\ controller'.clientLabel =
                    Normalize(controller.clientLabel, scope'.clientLabel,
                              Str(DEFAULT_CLIENT_LABEL))
      ]_vars

\* C13 witness: a refresh has written the values of the form, with an edited
\* label, into the bound parameters; the parameter watch has fired on them,
\* taken the start time and the label over into the controller and sent one
\* request with them.
C13_Witness ==
    /\ event.op = "refresh"
    /\ event.fired
    /\ NonEmptyName(scope)
    /\ Len(requests) = 2
    /\ requests[1].params.client_label = Str("")
    /\ scope.clientLabel = Str("L")
    /\ controller.clientLabel = Str("L")
    /\ event.issued[1].params.client_label = Str("L")
    /\ controller.typedStartTime # Undefined
    /\ controller.typedDuration # Undefined
    /\ scope.startTime = controller.typedStartTime.value
    /\ scope.startTime # Num(DEFAULT_START_TIME)
    /\ controller.startTime = scope.startTime
    /\ Len(event.issued) = 1
    /\ event.issued[1].params.start_time = scope.startTime

\* C14 as stated: while a request is in flight the state is LOADING.
C14_LoadingWhileOutstanding ==
    requests # <<>> => controller.state = "LOADING"

\* C14 amended: while a request is in flight the state is not INITIAL; every
\* request sent sets it to LOADING, and it stays LOADING until the next
\* successful response to any request in flight, which sets it to LOADED
\* whatever else is in flight. So the state is LOADED with a request in flight
\* exactly after a successful response that arrived while another request
\* was in flight, until the next request is sent.
C14_LoadingUntilAnySuccess ==
    [][ /\ requests' # <<>> => controller'.state \in {"LOADING", "LOADED"}
        /\ event'.issued # <<>> => controller'.state = "LOADING"
        /\ event'.op = "success" => controller'.state = "LOADED"
        /\ (controller.state = "LOADING" /\ controller'.state # "LOADING") =>
              event'.op = "success"
        /\ (requests' # <<>> /\ controller'.state = "LOADED") =>
              \/ event'.op = "success" /\ Len(requests) >= 2
              \/ /\ requests # <<>>
                 /\ controller.state = "LOADED"
                 /\ event'.issued = <<>>
      ]_vars

\* C14 witness: two requests were in flight, the response to the first sent
\* has arrived, and the state is LOADED with the second still in flight.
C14_Witness ==
    /\ event.op = "success"
    /\ Len(requests) = 1
    /\ controller.state = "LOADED"
    /\ NonEmptyName(scope)
    /\ requests[1] = ReportRequest(scope, controller)
    /\ event.answered # requests[1]

\* `plain` is the wrapped struct without its type information.
Stripped(wrapped, plain) ==
    /\ DOMAIN plain = DOMAIN wrapped.value
    /\ \A k \in DOMAIN plain : plain[k] = wrapped.value[k].value

\* C15: the state is INITIAL, LOADING or LOADED; once it is not INITIAL it
\* never is again, whatever changes of the parameters follow, the name
\* becoming empty included; and it is LOADED only from the callback of a
\* response on, with reportData and reportDesc the data and the descriptor of
\* a response received, without their type information, which stay so until
\* the callback of the next response.
C15_StateMachine ==
    [][ /\ controller'.state \in {"INITIAL", "LOADING", "LOADED"}
        /\ controller.state # "INITIAL" => controller'.state # "INITIAL"
        /\ fetched => controller'.state # "INITIAL"
        /\ controller'.state = "LOADED" =>
              \/ /\ event'.op = "success"
                 /\ event'.answered \in Range(requests)
                 /\ Stripped(ServerResponse(event'.answered).data.data,
                             controller'.reportData)
                 /\ Stripped(ServerResponse(event'.answered).data.desc,
                             controller'.reportDesc)
              \/ /\ controller.state = "LOADED"
                 /\ controller'.reportData = controller.reportData
                 /\ controller'.reportDesc = controller.reportDesc
                 /\ controller'.reportData # Undefined
                 /\ controller'.reportDesc # Undefined
      ]_vars

\* C15 witness: after a report was loaded the name has become empty, and the
\* state is LOADED, with the report of the earlier name.
C15_Witness ==
    /\ event.op = "params"
    /\ event.fired
    /\ scope.name = Str("")
    /\ requests = <<>>
    /\ controller.state = "LOADED"
    /\ controller.reportDesc.name = "stats/reports/X"

\* C16: with every request answered successfully and finitely many changes of
\* the parameters, once a parameter change with a non-empty name has sent a
\* request the state becomes LOADED and from some point on stays LOADED.
C16_EventuallyLoaded ==
    <>[](fetched => controller.state = "LOADED")

\* The steps that the fairness condition of SpecAnswered is about are the
\* steps of the callback of fetchData_, and one is possible whenever a request
\* is in flight.
DeliveredIsResponseSuccess ==
    [][ /\ (\E i \in 1..Len(requests) : requests' = RemoveAt(requests, i))
              <=> (event'.op = "success" /\ requests # <<>>)
        /\ event'.op = "success" => ResponseSuccessStep
        /\ requests # <<>> => ENABLED ResponseSuccessStep
      ]_vars

\* C16 witness: the parameter changes are used up, every request sent has
\* been answered, the last one while the name was empty again, and the state
\* is LOADED.
C16_Witness ==
    /\ fetched
    /\ budget = 0
    /\ requests = <<>>
    /\ event.op = "success"
    /\ event.replaced # Undefined
    /\ controller.state = "LOADED"

====
